---- MODULE Spec2Model ----
(***************************************************************************)
(* Model of the story-generation service of Cinema OS                      *)
(* (src/services/story_generation.py), of the story console that calls it  *)
(* (src/components/story_console.py), of the file search service           *)
(* (src/services/gemini_file_search.py) and of the document chat that      *)
(* calls it (src/components/rag_chat.py).                                  *)
(*                                                                         *)
(* A Python str is a sequence of one-character strings; Python's None, in  *)
(* a place that otherwise holds a str, is the one-element sequence None    *)
(* (no str of the model equals it, every element of a str being a single   *)
(* character).  The provider (google.genai) is the environment: each call  *)
(* either raises or returns a response, chosen nondeterministically.       *)
(***************************************************************************)
EXTENDS Integers, Sequences, FiniteSets, TLC

VARIABLES
    api_key,        \* StoryGenerationService.api_key
    model_name,     \* StoryGenerationService.model_name
    is_configured,  \* StoryGenerationService.is_configured
    client,         \* StoryGenerationService.client ("None" or "Client")
    pc,             \* position of generate_stories: idle, loop, call (a
                    \* generate_content call is outstanding), done (it
                    \* returned), raised (an exception left it)
    request,        \* the arguments of the running generate_stories call
    i,              \* the loop variable of `for i in range(number_of_variations)`
    stories,        \* the local list `stories`
    calls,          \* every generate_content call issued, in order
    outcomes,       \* what the provider answered to each call, in order
    warnings,       \* the "returned empty text" warnings logged, in order
    result,         \* the dict generate_stories returned
    story_idea,         \* the text area of the console, as last submitted
    generated_stories,  \* st.session_state.generated_stories
    selected_story,     \* st.session_state.selected_story
    viewing_story,      \* st.session_state.viewing_story
    ui_message,         \* what the last run of the console script showed
    rag_is_configured,  \* GeminiFileSearchService.is_configured
    upload_pc,          \* position of upload_files_to_store: idle, file (at
                        \* the top of the for loop), upload (the temporary
                        \* file is written), wait (in the while loop),
                        \* returned
    uploaded_files,     \* the argument uploaded_files: the names of the files
    file_index,         \* the place in uploaded_files of the file in the loop
    operation,          \* the local `operation`
    polls,              \* the operations.get calls made for this file
    uploaded_count,     \* the local `uploaded_count`
    temp_files,         \* the temporary files on disk, by place of their file
    observed_done,      \* the files whose operation was seen with done True
    upload_result,      \* the tuple upload_files_to_store returned
    store_id,           \* the argument store_id of upload_files_to_store
    created_stores,     \* the stores the provider ever created
    remote_stores,      \* the stores of the provider that are not deleted
    indexed,            \* the pairs <<store, file>> the provider indexed in
                        \* the running or the last upload_files_to_store
    service_result,     \* what the last create_file_search_store, query_rag
                        \* or delete_store returned
    remote_calls,       \* the remote calls of the last operation of the
                        \* file search service, in order
    query_response,     \* what generate_content returned to the last
                        \* query_rag
    rag_files_uploaded,   \* st.session_state.rag_files_uploaded
    rag_store_id,         \* st.session_state.rag_store_id
    uploaded_file_names,  \* st.session_state.uploaded_file_names
    rag_chat_history,     \* st.session_state.rag_chat_history
    chat_handler,         \* the handler the last run of render_rag_chat
                          \* ran: none, process (Process Documents), ask,
                          \* clear (Clear All)
    uploader,             \* the files Process Documents found in the file
                          \* uploader, when it ran in the last run
    valid_files,          \* valid_files of that Process Documents
    chat_message          \* what the last run of the chat script showed

\* the session state and the widgets of the story console
session == <<story_idea, generated_stories, selected_story, viewing_story,
             ui_message>>

\* the file search service and its running upload_files_to_store
rag == <<rag_is_configured, upload_pc, uploaded_files, file_index, operation,
         polls, uploaded_count, temp_files, observed_done, upload_result>>

\* the provider's stores and what the file search service last did
remote == <<store_id, created_stores, remote_stores, indexed, service_result,
            remote_calls, query_response>>

\* the session state and the locals of the document chat
chat == <<rag_files_uploaded, rag_store_id, uploaded_file_names,
          rag_chat_history, chat_handler, uploader, valid_files, chat_message>>

vars == <<api_key, model_name, is_configured, client, pc, request, i,
          stories, calls, outcomes, warnings, result, session, rag, remote,
          chat>>

----------------------------------------------------------------------------
(* Bounds of the model *)

\* the largest number_of_variations the model requests
MaxN == 2

\* the longest text the provider returns
MaxTextLen == 1

----------------------------------------------------------------------------
(* Python values *)

None == <<"None">>

\* the characters the provider's texts are made of: a letter and a blank
Alphabet == {"a", " "}

IsSpace(c) == c = " "

\* all str of length 0..n over Alphabet
StrUpTo(n) == UNION {[1..k -> Alphabet] : k \in 0..n}

\* truth value of an Optional[str]: None and "" are falsy
Truthy(s) == s # None /\ s # <<>>

\* str(n) for a one-digit n
DigitStr == <<"1", "2", "3", "4", "5", "6", "7", "8", "9">>

\* str.split() with no argument, as a left-to-right scan from position k:
\* skip the whitespace, take the characters up to the next whitespace (or the
\* end) as one token, go on after it; leading, trailing and repeated
\* whitespace produce no empty token
SplitFrom(s, k) ==
    LET scan[from \in 1..(Len(s) + 1)] ==
            IF \A p \in from..Len(s) : IsSpace(s[p])
            THEN <<>>
            ELSE LET start == CHOOSE p \in from..Len(s) :
                                 /\ ~IsSpace(s[p])
                                 /\ \A q \in from..(p - 1) : IsSpace(s[q])
                     stop  == CHOOSE p \in (start + 1)..(Len(s) + 1) :
                                 /\ p = Len(s) + 1 \/ IsSpace(s[p])
                                 /\ \A q \in start..(p - 1) : ~IsSpace(s[q])
                 IN  <<SubSeq(s, start, stop - 1)>> \o scan[stop]
    IN  scan[k]

split(s) == SplitFrom(s, 1)

----------------------------------------------------------------------------
(* Configuration *)

GEMINI_CREATIVE_MODEL == "gemini-1.5-pro"

\* values of the environment variable GEMINI_API_KEY: unset, or set
ApiKeys == {"", "key"}

SYSTEM_INSTRUCTION == "You are a professional screenwriter and creative storyteller."

MinWords == 100
MaxWords == 1000

\* arguments generate_stories is called with: the idea, 1..MaxN variations,
\* the ends of the word-count slider and of the temperature slider (in tenths)
Ideas == {<<"c", "a", "t">>}
WordCounts == {MinWords, MaxWords}
MinTemperature == 0
MaxTemperature == 20
Temperatures == {MinTemperature, MaxTemperature}

Requests ==
    [story_idea : Ideas,
     number_of_variations : 1..MaxN,
     target_word_count : WordCounts,
     temperature : Temperatures]

NoRequest ==
    [story_idea |-> <<>>, number_of_variations |-> 0,
     target_word_count |-> 0, temperature |-> 0]

----------------------------------------------------------------------------
(* The provider: client.models.generate_content *)

\* exceptions a generate_content call raises (all subclasses of Exception)
Exceptions == {"APIError", "ConnectionError"}

\* finish reasons of a candidate: complete, truncated, filtered
FinishReasons == {"STOP", "MAX_TOKENS", "SAFETY"}

NoUsageMetadata == [absent |-> TRUE]

Raise(e) == [kind |-> "raise", exc |-> e]

Response(t, c, u) ==
    [kind |-> "response", text |-> t, candidates |-> c, usage_metadata |-> u]

\* response.text of the responses the provider returns: None, "" or a text
ResponseTexts == {None} \cup StrUpTo(MaxTextLen)

UsageTokens(t) == IF t = None THEN 0 ELSE Len(t)

\* a response has no candidate (and then no text), or one candidate with a
\* finish reason and any text
Responses ==
    {Response(None, <<>>, u) :
        u \in {NoUsageMetadata, [total_token_count |-> 0]}}
    \cup
    {Response(t, <<[finish_reason |-> f]>>,
              [total_token_count |-> UsageTokens(t)]) :
        t \in ResponseTexts, f \in FinishReasons}

----------------------------------------------------------------------------
(* StoryGenerationService.__init__ *)

\* outcomes of genai.Client(api_key=...)
ClientInits == {"ok", "raise"}

\* is_configured after construction: the key is set and the client was built
InitIsConfigured(key, clientInit) ==
    IF key # "" THEN clientInit = "ok" ELSE FALSE

InitClient(key, clientInit) ==
    IF key # "" /\ clientInit = "ok" THEN "Client" ELSE "None"

----------------------------------------------------------------------------
(* StoryGenerationService.generate_stories *)

\* nothing returned yet
NoResult == [pending |-> TRUE]

\* None, or no entry, in a place of the session state that holds a story
NoStory == [absent |-> TRUE]

\* nothing shown by st.error, st.success or st.code
NoMessage == [kind |-> "none"]

\* no operation yet
NoOperation == [absent |-> TRUE]

\* no response to a query_rag yet
NoResponse == [absent |-> TRUE]

\* the messages are tuples of their parts (the leading cross mark is left out);
\* no message equals None

\* NotConfiguredResult that leaves the error unset
NotConfiguredResult_NullError == [stories |-> <<>>, error |-> None]

NotConfiguredResult ==
    [stories |-> <<>>,
     error |-> <<"Gemini API key not configured. Please add your API key to .env file.">>]

\* max_tokens_limit without the buffer: one token per word
max_tokens_limit_NoBuffer(target_word_count) == target_word_count

\* int(target_word_count * 1.5)
max_tokens_limit(target_word_count) == (target_word_count * 3) \div 2

\* safety_settings that leaves one category at the provider's default
safety_settings_ThreeCategories ==
    << [category |-> "HARM_CATEGORY_HARASSMENT", threshold |-> "BLOCK_NONE"],
       [category |-> "HARM_CATEGORY_HATE_SPEECH", threshold |-> "BLOCK_NONE"],
       [category |-> "HARM_CATEGORY_DANGEROUS_CONTENT", threshold |-> "BLOCK_NONE"] >>

safety_settings ==
    << [category |-> "HARM_CATEGORY_HARASSMENT", threshold |-> "BLOCK_NONE"],
       [category |-> "HARM_CATEGORY_HATE_SPEECH", threshold |-> "BLOCK_NONE"],
       [category |-> "HARM_CATEGORY_SEXUALLY_EXPLICIT", threshold |-> "BLOCK_NONE"],
       [category |-> "HARM_CATEGORY_DANGEROUS_CONTENT", threshold |-> "BLOCK_NONE"] >>

\* Prompt that numbers every variation 1
Prompt_SameNumber(req, k) ==
    << "STORY IDEA: ", req.story_idea,
       "TASK: Write a unique story variation based on the idea above.",
       "VARIATION NUMBER: ", 1,
       "REQUIREMENTS:",
       "- Tone: Cinematic and Engaging",
       "- Structure: Clear beginning, middle, and end",
       "- Length: Approximately ", req.target_word_count, " words",
       "- Make this version distinct from a standard interpretation.",
       "STORY:" >>

\* the f-string prompt of variation k + 1
Prompt(req, k) ==
    << "STORY IDEA: ", req.story_idea,
       "TASK: Write a unique story variation based on the idea above.",
       "VARIATION NUMBER: ", k + 1,
       "REQUIREMENTS:",
       "- Tone: Cinematic and Engaging",
       "- Structure: Clear beginning, middle, and end",
       "- Length: Approximately ", req.target_word_count, " words",
       "- Make this version distinct from a standard interpretation.",
       "STORY:" >>

\* the arguments of the generate_content call of iteration k
GenerateContentCall(req, k, model) ==
    [variation |-> k + 1,
     model |-> model,
     contents |-> Prompt(req, k),
     temperature |-> req.temperature,
     max_output_tokens |-> max_tokens_limit(req.target_word_count),
     safety_settings |-> safety_settings,
     system_instruction |-> SYSTEM_INSTRUCTION]

\* ErrorPlaceholder that is the empty str
ErrorPlaceholder_Empty(k) == <<>>

\* "[Error: The model was unable to generate Variation {k+1}. It may have
\* been overloaded or triggered a strict filter.]"
ErrorPlaceholder(k) ==
    << "[", "E", "r", "r", "o", "r", ":", " ", "T", "h", "e", " ", "m", "o",
       "d", "e", "l", " ", "w", "a", "s", " ", "u", "n", "a", "b", "l", "e",
       " ", "t", "o", " ", "g", "e", "n", "e", "r", "a", "t", "e", " ", "V",
       "a", "r", "i", "a", "t", "i", "o", "n", " " >>
    \o << DigitStr[k + 1] >> \o
    << ".", " ", "I", "t", " ", "m", "a", "y", " ", "h", "a", "v", "e", " ",
       "b", "e", "e", "n", " ", "o", "v", "e", "r", "l", "o", "a", "d", "e",
       "d", " ", "o", "r", " ", "t", "r", "i", "g", "g", "e", "r", "e", "d",
       " ", "a", " ", "s", "t", "r", "i", "c", "t", " ", "f", "i", "l", "t",
       "e", "r", ".", "]" >>

\* ResponseText that slices the first character off
ResponseText_Sliced(response) ==
    IF Truthy(response.text) THEN Tail(response.text) ELSE <<>>

\* story_text = response.text if response.text else ""
ResponseText(response) ==
    IF Truthy(response.text) THEN response.text ELSE <<>>

\* the finish reason the warning logs: guarded against an empty candidate list
WarnedFinishReason(response) ==
    IF response.candidates # <<>>
    THEN response.candidates[1].finish_reason
    ELSE "Unknown"

\* StoryText without the substitution of the placeholder
StoryText_KeepsEmpty(response, k) == ResponseText(response)

\* StoryText that accepts a text only when the candidate finished with STOP
StoryText_RequiresStop(response, k) ==
    IF \/ ~Truthy(ResponseText(response))
       \/ response.candidates = <<>>
       \/ response.candidates[1].finish_reason # "STOP"
    THEN ErrorPlaceholder(k)
    ELSE ResponseText(response)

\* story_text after the empty-text check
StoryText(response, k) ==
    IF ~Truthy(ResponseText(response))
    THEN ErrorPlaceholder(k)
    ELSE ResponseText(response)

TokensUsed(response) ==
    IF response.usage_metadata # NoUsageMetadata
    THEN response.usage_metadata.total_token_count
    ELSE 0

\* Story with the ids counted from 0
Story_IdFromZero(response, k) ==
    [id |-> k,
     title |-> <<"Story Variation ", k + 1>>,
     content |-> StoryText(response, k),
     word_count |-> Len(split(StoryText(response, k))),
     tokens_used |-> TokensUsed(response)]

\* Story with the words counted before the placeholder is substituted
Story_StaleWordCount(response, k) ==
    [id |-> k + 1,
     title |-> <<"Story Variation ", k + 1>>,
     content |-> StoryText(response, k),
     word_count |-> Len(split(ResponseText(response))),
     tokens_used |-> TokensUsed(response)]

\* Story with a token count that runs on from the story before
Story_RunningTokens(response, k) ==
    [id |-> k + 1,
     title |-> <<"Story Variation ", k + 1>>,
     content |-> StoryText(response, k),
     word_count |-> Len(split(StoryText(response, k))),
     tokens_used |-> TokensUsed(response) +
                     (IF stories = <<>> THEN 0
                      ELSE stories[Len(stories)].tokens_used)]

\* Story whose title names the model and that carries the model name
Story_NamesModel(response, k) ==
    [id |-> k + 1,
     title |-> <<"Story Variation ", k + 1, " (", model_name, ")">>,
     content |-> StoryText(response, k),
     word_count |-> Len(split(StoryText(response, k))),
     tokens_used |-> TokensUsed(response),
     model |-> model_name]

\* the story dict of iteration k
Story(response, k) ==
    [id |-> k + 1,
     title |-> <<"Story Variation ", k + 1>>,
     content |-> StoryText(response, k),
     word_count |-> Len(split(StoryText(response, k))),
     tokens_used |-> TokensUsed(response)]

\* range_next that repeats the iteration
range_next_Stuck(k) == k

\* `for i in range(n)`: the index of the next iteration
range_next(k) == k + 1

\* Catches of a clause `except APIError`
Catches_OnlyAPIError(e) == e = "APIError"

\* `except Exception`: every exception of the provider is an Exception
Catches(e) == e \in Exceptions

\* ExceptResult that leaves the error unset
ExceptResult_NullError(e) == [stories |-> <<>>, error |-> None]

ExceptResult(e) ==
    [stories |-> <<>>, error |-> <<"Generation failed: ", e>>]

SuccessResult(ss) == [stories |-> ss, error |-> None]

----------------------------------------------------------------------------
(* State machine *)

\* the story service after construction and the session state after
\* initialize_session_state
InitStory ==
    /\ api_key \in ApiKeys
    /\ model_name = GEMINI_CREATIVE_MODEL
    /\ \E ci \in ClientInits :
          /\ is_configured = InitIsConfigured(api_key, ci)
          /\ client = InitClient(api_key, ci)
    /\ pc = "idle"
    /\ request = NoRequest
    /\ i = 0
    /\ stories = <<>>
    /\ calls = <<>>
    /\ outcomes = <<>>
    /\ warnings = <<>>
    /\ result = NoResult
    /\ story_idea = <<>>
    /\ generated_stories = <<>>
    /\ selected_story = NoStory
    /\ viewing_story = NoStory
    /\ ui_message = NoMessage

\* the file search service after a construction in which the client was
\* built (clientInit "ok") or its construction raised
InitRag(clientInit) ==
    /\ rag_is_configured = InitIsConfigured(api_key, clientInit)
    /\ upload_pc = "idle"
    /\ uploaded_files = <<>>
    /\ file_index = 0
    /\ operation = NoOperation
    /\ polls = 0
    /\ uploaded_count = 0
    /\ temp_files = {}
    /\ observed_done = {}
    /\ upload_result = NoResult
    /\ store_id = None
    /\ created_stores = {}
    /\ remote_stores = {}
    /\ indexed = {}
    /\ service_result = NoResult
    /\ remote_calls = <<>>
    /\ query_response = NoResponse
    /\ rag_files_uploaded = FALSE
    /\ rag_store_id = None
    /\ uploaded_file_names = <<>>
    /\ rag_chat_history = <<>>
    /\ chat_handler = "none"
    /\ uploader = <<>>
    /\ valid_files = <<>>
    /\ chat_message = NoMessage

\* the story service and the console never read the file search service:
\* they are run next to one whose client was built
Init == InitStory /\ InitRag("ok")

\* generate_stories on an unconfigured service: the early return
GenerateUnconfigured ==
    /\ pc = "idle"
    /\ ~is_configured
    /\ \E req \in Requests : request' = req
    /\ result' = NotConfiguredResult
    /\ pc' = "done"
    /\ UNCHANGED <<api_key, model_name, is_configured, client, i, stories,
                   calls, outcomes, warnings>>
    /\ UNCHANGED session
    /\ UNCHANGED rag
    /\ UNCHANGED <<remote, chat>>

\* generate_stories on a configured service, up to the loop
GenerateBegin ==
    /\ pc = "idle"
    /\ is_configured
    /\ \E req \in Requests : request' = req
    /\ stories' = <<>>
    /\ i' = 0
    /\ pc' = "loop"
    /\ UNCHANGED <<api_key, model_name, is_configured, client, calls,
                   outcomes, warnings, result>>
    /\ UNCHANGED session
    /\ UNCHANGED rag
    /\ UNCHANGED <<remote, chat>>

\* IssueCall that does not wait for the outstanding call
IssueCall_NoWait ==
    /\ pc \in {"loop", "call"}
    /\ Len(calls) < request.number_of_variations
    /\ calls' = Append(calls, GenerateContentCall(request, Len(calls), model_name))
    /\ pc' = "call"
    /\ UNCHANGED <<api_key, model_name, is_configured, client, request, i,
                   stories, outcomes, warnings, result>>
    /\ UNCHANGED session
    /\ UNCHANGED rag
    /\ UNCHANGED <<remote, chat>>

\* one iteration, up to the call of generate_content
IssueCall ==
    /\ pc = "loop"
    /\ i < request.number_of_variations
    /\ calls' = Append(calls, GenerateContentCall(request, i, model_name))
    /\ pc' = "call"
    /\ UNCHANGED <<api_key, model_name, is_configured, client, request, i,
                   stories, outcomes, warnings, result>>
    /\ UNCHANGED session
    /\ UNCHANGED rag
    /\ UNCHANGED <<remote, chat>>

\* generate_content returns `response`: the rest of the iteration and, after
\* the last iteration, the successful return
Returns(response) ==
    LET story == Story(response, i)
    IN  /\ outcomes' = Append(outcomes, response)
        /\ warnings' =
              IF ~Truthy(ResponseText(response))
              THEN Append(warnings, <<i + 1, WarnedFinishReason(response)>>)
              ELSE warnings
        /\ stories' = Append(stories, story)
        /\ IF range_next(i) < request.number_of_variations
           THEN /\ pc' = "loop"
                /\ result' = result
           ELSE /\ pc' = "done"
                /\ result' = SuccessResult(Append(stories, story))
        /\ i' = range_next(i)
        /\ UNCHANGED <<api_key, model_name, is_configured, client, request,
                       calls>>
        /\ UNCHANGED session
        /\ UNCHANGED rag
        /\ UNCHANGED <<remote, chat>>

CallReturns ==
    /\ pc = "call"
    /\ \E response \in Responses : Returns(response)

\* generate_content raises: the except clause, or the exception leaves
\* generate_stories
CallRaises ==
    /\ pc = "call"
    /\ \E e \in Exceptions :
          /\ outcomes' = Append(outcomes, Raise(e))
          /\ IF Catches(e)
             THEN /\ result' = ExceptResult(e)
                  /\ pc' = "done"
             ELSE /\ result' = result
                  /\ pc' = "raised"
    /\ UNCHANGED <<api_key, model_name, is_configured, client, request, i,
                   stories, calls, warnings>>
    /\ UNCHANGED session
    /\ UNCHANGED rag
    /\ UNCHANGED <<remote, chat>>

Next ==
    \/ GenerateUnconfigured
    \/ GenerateBegin
    \/ IssueCall
    \/ CallReturns
    \/ CallRaises

Spec == Init /\ [][Next]_vars

----------------------------------------------------------------------------
(* The story console: render_story_console *)

\* MESSAGES of config/constants.py
NO_GEMINI_KEY == <<"Gemini API key not configured. The app will not function.">>
STORIES_GENERATED == <<"Stories generated successfully!">>
NO_IDEA == <<"Please enter your story idea first.">>

ErrorMessage(text) == [kind |-> "error", text |-> text]

SuccessMessage(text) == [kind |-> "success", text |-> text]

CodeBlock(text) == [kind |-> "code", text |-> text]

\* the options of the model selectbox
gemini_models ==
    <<"gemini-1.5-pro", "gemini-1.5-flash", "gemini-1.5-flash-8b",
      "gemini-2.0-flash-exp">>

\* the models the user of the model picks: the default and another one
SelectableModels == {gemini_models[1], gemini_models[2]}

\* number_input "Number of Variations": min_value and max_value
MinVariations == 1
MaxVariations == 5

\* what the user enters: no idea, a blank idea or an idea; the ends of the
\* number input and of the two sliders
ConsoleIdeas == {<<>>, <<" ">>, <<"c", "a", "t">>}
ConsoleVariations == {MinVariations, MaxVariations}
ConsoleRequests ==
    [story_idea : ConsoleIdeas,
     number_of_variations : ConsoleVariations,
     target_word_count : WordCounts,
     temperature : Temperatures]

\* what the provider answers to the calls of the console: a story
ConsoleResponses ==
    {Response(<<"a">>, <<[finish_reason |-> "STOP"]>>,
              [total_token_count |-> 1])}

\* strip that removes nothing
strip_Nothing(s) == s

\* str.strip(): s without its leading and trailing whitespace
strip(s) ==
    IF \A p \in 1..Len(s) : IsSpace(s[p])
    THEN <<>>
    ELSE LET first == CHOOSE p \in 1..Len(s) :
                         /\ ~IsSpace(s[p])
                         /\ \A q \in 1..(p - 1) : IsSpace(s[q])
             last  == CHOOSE p \in 1..Len(s) :
                         /\ ~IsSpace(s[p])
                         /\ \A q \in (p + 1)..Len(s) : IsSpace(s[q])
         IN  SubSeq(s, first, last)

\* StoredStories that takes the stories of every result
StoredStories_OfEveryResult(res, current) == res.stories

\* st.session_state.generated_stories after the result res
StoredStories(res, current) ==
    IF Truthy(res.error) THEN current ELSE res.stories

\* what the console shows for the result res
ResultMessage(res) ==
    IF Truthy(res.error)
    THEN ErrorMessage(res.error)
    ELSE SuccessMessage(STORIES_GENERATED)

\* the script runs only between the runs of generate_stories, and renders
\* the console only when GEMINI_API_KEY is set
ConsoleRendered == api_key # "" /\ pc = "idle"

\* a run of the script without GEMINI_API_KEY: the error and the return
ConsoleNoKey ==
    /\ api_key = ""
    /\ pc = "idle"
    /\ ui_message' = ErrorMessage(NO_GEMINI_KEY)
    /\ UNCHANGED <<api_key, model_name, is_configured, client, pc, request,
                   i, stories, calls, outcomes, warnings, result>>
    /\ UNCHANGED <<story_idea, generated_stories, selected_story,
                   viewing_story>>
    /\ UNCHANGED rag
    /\ UNCHANGED <<remote, chat>>

\* the user picks another model in the selectbox
SelectModel ==
    /\ ConsoleRendered
    /\ \E selected_model \in SelectableModels :
          /\ selected_model # model_name
          /\ model_name' = selected_model
    /\ ui_message' = NoMessage
    /\ UNCHANGED <<api_key, is_configured, client, pc, request, i, stories,
                   calls, outcomes, warnings, result>>
    /\ UNCHANGED <<story_idea, generated_stories, selected_story,
                   viewing_story>>
    /\ UNCHANGED rag
    /\ UNCHANGED <<remote, chat>>

\* "Generate Stories" with an idea that strips to nothing
GenerateNoIdea ==
    /\ ConsoleRendered
    /\ \E idea \in ConsoleIdeas :
          /\ ~Truthy(strip(idea))
          /\ story_idea' = idea
    /\ ui_message' = ErrorMessage(NO_IDEA)
    /\ UNCHANGED <<api_key, model_name, is_configured, client, pc, request,
                   i, stories, calls, outcomes, warnings, result>>
    /\ UNCHANGED <<generated_stories, selected_story, viewing_story>>
    /\ UNCHANGED rag
    /\ UNCHANGED <<remote, chat>>

\* "Generate Stories" with an idea: the call of generate_stories, up to its
\* loop or to its early return
GenerateStories ==
    /\ ConsoleRendered
    /\ \E req \in ConsoleRequests :
          /\ Truthy(strip(req.story_idea))
          /\ story_idea' = req.story_idea
          /\ request' = req
    /\ IF is_configured
       THEN /\ stories' = <<>>
            /\ i' = 0
            /\ pc' = "loop"
            /\ result' = result
       ELSE /\ result' = NotConfiguredResult
            /\ pc' = "done"
            /\ UNCHANGED <<i, stories>>
    /\ ui_message' = NoMessage
    /\ UNCHANGED <<api_key, model_name, is_configured, client, calls,
                   outcomes, warnings>>
    /\ UNCHANGED <<generated_stories, selected_story, viewing_story>>
    /\ UNCHANGED rag
    /\ UNCHANGED <<remote, chat>>

\* generate_content returns a story to a call of the console
ConsoleCallReturns ==
    /\ pc = "call"
    /\ \E response \in ConsoleResponses : Returns(response)

\* generate_stories has returned: the error, or the stories and the success
\* message; the run of the script ends, and with it the call and its record
ShowResult ==
    /\ pc = "done"
    /\ generated_stories' = StoredStories(result, generated_stories)
    /\ ui_message' = ResultMessage(result)
    /\ pc' = "idle"
    /\ request' = NoRequest
    /\ i' = 0
    /\ stories' = <<>>
    /\ calls' = <<>>
    /\ outcomes' = <<>>
    /\ warnings' = <<>>
    /\ result' = NoResult
    /\ UNCHANGED <<api_key, model_name, is_configured, client>>
    /\ UNCHANGED <<story_idea, selected_story, viewing_story>>
    /\ UNCHANGED rag
    /\ UNCHANGED <<remote, chat>>

\* "View Full" of a story card
ViewFull ==
    /\ ConsoleRendered
    /\ \E k \in 1..Len(generated_stories) :
          viewing_story' = generated_stories[k]
    /\ ui_message' = NoMessage
    /\ UNCHANGED <<api_key, model_name, is_configured, client, pc, request,
                   i, stories, calls, outcomes, warnings, result>>
    /\ UNCHANGED <<story_idea, generated_stories, selected_story>>
    /\ UNCHANGED rag
    /\ UNCHANGED <<remote, chat>>

\* "Select" of a story card
SelectStory ==
    /\ ConsoleRendered
    /\ \E k \in 1..Len(generated_stories) :
          selected_story' = generated_stories[k]
    /\ ui_message' = NoMessage
    /\ UNCHANGED <<api_key, model_name, is_configured, client, pc, request,
                   i, stories, calls, outcomes, warnings, result>>
    /\ UNCHANGED <<story_idea, generated_stories, viewing_story>>
    /\ UNCHANGED rag
    /\ UNCHANGED <<remote, chat>>

\* "Copy" of a story card: the content in a code block
CopyStory ==
    /\ ConsoleRendered
    /\ \E k \in 1..Len(generated_stories) :
          ui_message' = CodeBlock(generated_stories[k].content)
    /\ UNCHANGED <<api_key, model_name, is_configured, client, pc, request,
                   i, stories, calls, outcomes, warnings, result>>
    /\ UNCHANGED <<story_idea, generated_stories, selected_story,
                   viewing_story>>
    /\ UNCHANGED rag
    /\ UNCHANGED <<remote, chat>>

\* "Close Full View" of the viewer
CloseViewer ==
    /\ ConsoleRendered
    /\ viewing_story # NoStory
    /\ viewing_story' = NoStory
    /\ ui_message' = NoMessage
    /\ UNCHANGED <<api_key, model_name, is_configured, client, pc, request,
                   i, stories, calls, outcomes, warnings, result>>
    /\ UNCHANGED <<story_idea, generated_stories, selected_story>>
    /\ UNCHANGED rag
    /\ UNCHANGED <<remote, chat>>

\* "View Selected" of the selection indicator
ViewSelected ==
    /\ ConsoleRendered
    /\ selected_story # NoStory
    /\ viewing_story' = selected_story
    /\ ui_message' = NoMessage
    /\ UNCHANGED <<api_key, model_name, is_configured, client, pc, request,
                   i, stories, calls, outcomes, warnings, result>>
    /\ UNCHANGED <<story_idea, generated_stories, selected_story>>
    /\ UNCHANGED rag
    /\ UNCHANGED <<remote, chat>>

\* "Deselect" of the selection indicator
Deselect ==
    /\ ConsoleRendered
    /\ selected_story # NoStory
    /\ selected_story' = NoStory
    /\ ui_message' = NoMessage
    /\ UNCHANGED <<api_key, model_name, is_configured, client, pc, request,
                   i, stories, calls, outcomes, warnings, result>>
    /\ UNCHANGED <<story_idea, generated_stories, viewing_story>>
    /\ UNCHANGED rag
    /\ UNCHANGED <<remote, chat>>

NextConsole ==
    \/ ConsoleNoKey
    \/ SelectModel
    \/ GenerateNoIdea
    \/ GenerateStories
    \/ IssueCall
    \/ ConsoleCallReturns
    \/ CallRaises
    \/ ShowResult
    \/ ViewFull
    \/ SelectStory
    \/ CopyStory
    \/ CloseViewer
    \/ ViewSelected
    \/ Deselect

SpecConsole == Init /\ [][NextConsole]_vars

----------------------------------------------------------------------------
(* GeminiFileSearchService.upload_files_to_store *)

\* the most files uploaded in one call
MaxFiles == 2

\* the most operations.get calls the provider answers with an operation that
\* is not done, for one file
MaxPolls == 2

\* the most stores the provider creates
MaxStores == 2

\* store.name of the n-th store the provider creates
StoreName(n) == <<"fileSearchStores/", n>>

StoreNames == {StoreName(n) : n \in 1..MaxStores}

\* a call of the provider by the file search service: it returned, or the
\* exception it raised
RemoteCall(name, outcome) == [call |-> name, outcome |-> outcome]

\* the lists of files upload_files_to_store is called with
FileLists == {[k \in 1..n |-> k] : n \in 0..MaxFiles}

\* operation.done is an Optional[bool]; operation.error is set when the
\* server-side processing failed
Operation(done, error) == [done |-> done, error |-> error]

\* the operations the provider returns: not done (False or None), done, or
\* done with an error
Operations ==
    {Operation("False", "None"), Operation("None", "None"),
     Operation("True", "None"), Operation("True", "failed")}

\* the provider reports every operation done after MaxPolls polls at most
OperationsAfter(n) ==
    IF n < MaxPolls THEN Operations
    ELSE {op \in Operations : op.done = "True"}

\* exceptions of writing the temporary file
FileExceptions == {"OSError"}

\* not_done that stops waiting at None
not_done_OnlyFalse(op) == op.done = "False"

\* `not operation.done`
not_done(op) == op.done # "True"

UploadNotConfigured ==
    [success |-> FALSE, message |-> <<"API Key missing">>, count |-> 0]

UploadSuccess(count) ==
    [success |-> TRUE,
     message |-> <<"Successfully indexed ", count, " files">>,
     count |-> count]

UploadFailure(e) ==
    [success |-> FALSE, message |-> <<"Upload failed: ", e>>, count |-> 0]

\* the story service, the console and the file search service next to them
InitUpload == InitStory /\ \E ci \in ClientInits : InitRag(ci)

\* upload_files_to_store(files, sid) on an unconfigured service: the early
\* return
UploadReturnsUnconfigured(files, sid) ==
    /\ uploaded_files' = files
    /\ store_id' = sid
    /\ remote_calls' = <<>>
    /\ upload_result' = UploadNotConfigured
    /\ upload_pc' = "returned"
    /\ UNCHANGED <<rag_is_configured, file_index, operation, polls,
                   uploaded_count, temp_files, observed_done>>
    /\ service_result' = NoResult
    /\ query_response' = NoResponse
    /\ indexed' = {}
    /\ UNCHANGED <<created_stores, remote_stores>>

\* upload_files_to_store(files, sid) on a configured service, up to the
\* first file, or to the return when there is no file
UploadStarts(files, sid) ==
    /\ uploaded_files' = files
    /\ store_id' = sid
    /\ remote_calls' = <<>>
    /\ IF files = <<>>
       THEN /\ upload_pc' = "returned"
            /\ upload_result' = UploadSuccess(0)
            /\ file_index' = file_index
       ELSE /\ upload_pc' = "file"
            /\ upload_result' = upload_result
            /\ file_index' = 1
    /\ uploaded_count' = 0
    /\ UNCHANGED <<rag_is_configured, operation, polls, temp_files,
                   observed_done>>
    /\ service_result' = NoResult
    /\ query_response' = NoResponse
    /\ indexed' = {}
    /\ UNCHANGED <<created_stores, remote_stores>>

UploadUnconfigured ==
    /\ upload_pc = "idle"
    /\ ~rag_is_configured
    /\ \E files \in FileLists, sid \in StoreNames :
          UploadReturnsUnconfigured(files, sid)
    /\ UNCHANGED <<api_key, model_name, is_configured, client, pc, request,
                   i, stories, calls, outcomes, warnings, result, session>>
    /\ UNCHANGED chat

UploadBegin ==
    /\ upload_pc = "idle"
    /\ rag_is_configured
    /\ \E files \in FileLists, sid \in StoreNames : UploadStarts(files, sid)
    /\ UNCHANGED <<api_key, model_name, is_configured, client, pc, request,
                   i, stories, calls, outcomes, warnings, result, session>>
    /\ UNCHANGED chat

\* the temporary file of the file in the loop is created and written
WriteTempFile ==
    /\ upload_pc = "file"
    /\ temp_files' = temp_files \cup {file_index}
    /\ upload_pc' = "upload"
    /\ UNCHANGED <<rag_is_configured, uploaded_files, file_index, operation,
                   polls, uploaded_count, observed_done, upload_result>>
    /\ UNCHANGED <<api_key, model_name, is_configured, client, pc, request,
                   i, stories, calls, outcomes, warnings, result, session>>
    /\ UNCHANGED <<remote, chat>>

\* creating or writing the temporary file raises, before the inner try: the
\* file is on disk when it was created, and the outer except returns
WriteTempFileRaises ==
    /\ upload_pc = "file"
    /\ \E e \in FileExceptions, created \in BOOLEAN :
          /\ temp_files' = IF created
                           THEN temp_files \cup {file_index}
                           ELSE temp_files
          /\ upload_result' = UploadFailure(e)
    /\ upload_pc' = "returned"
    /\ UNCHANGED <<rag_is_configured, uploaded_files, file_index, operation,
                   polls, uploaded_count, observed_done>>
    /\ UNCHANGED <<api_key, model_name, is_configured, client, pc, request,
                   i, stories, calls, outcomes, warnings, result, session>>
    /\ UNCHANGED <<remote, chat>>

\* the while loop is left with the operation op: the file is counted, its
\* temporary file is removed, and the for loop goes on or the call returns;
\* the provider has indexed the file when the operation has no error
FileIndexed(op) ==
    /\ operation' = op
    /\ observed_done' = IF op.done = "True"
                        THEN observed_done \cup {file_index}
                        ELSE observed_done
    /\ indexed' = IF op.done = "True" /\ op.error = "None"
                  THEN indexed \cup {<<store_id, uploaded_files[file_index]>>}
                  ELSE indexed
    /\ uploaded_count' = uploaded_count + 1
    /\ temp_files' = temp_files \ {file_index}
    /\ IF file_index < Len(uploaded_files)
       THEN /\ file_index' = file_index + 1
            /\ upload_pc' = "file"
            /\ upload_result' = upload_result
       ELSE /\ file_index' = file_index
            /\ upload_pc' = "returned"
            /\ upload_result' = UploadSuccess(uploaded_count + 1)

\* the while loop is entered, or goes round again, with the operation op
KeepWaiting(op) ==
    /\ operation' = op
    /\ upload_pc' = "wait"
    /\ UNCHANGED <<file_index, uploaded_count, temp_files, observed_done,
                   upload_result, indexed>>

\* a remote call raises inside the inner try: the finally removes the
\* temporary file and the outer except returns
RemoteCallRaises(e) ==
    /\ temp_files' = temp_files \ {file_index}
    /\ upload_result' = UploadFailure(e)
    /\ upload_pc' = "returned"
    /\ UNCHANGED <<file_index, operation, uploaded_count, observed_done,
                   indexed>>

\* upload_to_file_search_store returns an operation
UploadCallReturns ==
    /\ upload_pc = "upload"
    /\ \E op \in OperationsAfter(0) :
          IF not_done(op) THEN KeepWaiting(op) ELSE FileIndexed(op)
    /\ polls' = 0
    /\ remote_calls' =
          Append(remote_calls,
                 RemoteCall("upload_to_file_search_store", "returned"))
    /\ UNCHANGED <<rag_is_configured, uploaded_files>>
    /\ UNCHANGED <<store_id, created_stores, remote_stores, service_result,
                   query_response>>
    /\ UNCHANGED <<api_key, model_name, is_configured, client, pc, request,
                   i, stories, calls, outcomes, warnings, result, session>>
    /\ UNCHANGED chat

\* upload_to_file_search_store raises
UploadCallRaises ==
    /\ upload_pc = "upload"
    /\ \E e \in Exceptions :
          /\ RemoteCallRaises(e)
          /\ remote_calls' =
                Append(remote_calls,
                       RemoteCall("upload_to_file_search_store", e))
    /\ UNCHANGED <<rag_is_configured, uploaded_files, polls>>
    /\ UNCHANGED <<store_id, created_stores, remote_stores, service_result,
                   query_response>>
    /\ UNCHANGED <<api_key, model_name, is_configured, client, pc, request,
                   i, stories, calls, outcomes, warnings, result, session>>
    /\ UNCHANGED chat

\* one round of the while loop: the sleep and operations.get, which returns
\* the operation
PollReturns ==
    /\ upload_pc = "wait"
    /\ polls' = polls + 1
    /\ \E op \in OperationsAfter(polls + 1) :
          IF not_done(op) THEN KeepWaiting(op) ELSE FileIndexed(op)
    /\ remote_calls' =
          Append(remote_calls, RemoteCall("operations.get", "returned"))
    /\ UNCHANGED <<rag_is_configured, uploaded_files>>
    /\ UNCHANGED <<store_id, created_stores, remote_stores, service_result,
                   query_response>>
    /\ UNCHANGED <<api_key, model_name, is_configured, client, pc, request,
                   i, stories, calls, outcomes, warnings, result, session>>
    /\ UNCHANGED chat

\* one round of the while loop in which operations.get raises
PollRaises ==
    /\ upload_pc = "wait"
    /\ polls' = polls + 1
    /\ \E e \in Exceptions :
          /\ RemoteCallRaises(e)
          /\ remote_calls' =
                Append(remote_calls, RemoteCall("operations.get", e))
    /\ UNCHANGED <<rag_is_configured, uploaded_files>>
    /\ UNCHANGED <<store_id, created_stores, remote_stores, service_result,
                   query_response>>
    /\ UNCHANGED <<api_key, model_name, is_configured, client, pc, request,
                   i, stories, calls, outcomes, warnings, result, session>>
    /\ UNCHANGED chat

NextUpload ==
    \/ UploadUnconfigured
    \/ UploadBegin
    \/ WriteTempFile
    \/ WriteTempFileRaises
    \/ UploadCallReturns
    \/ UploadCallRaises
    \/ PollReturns
    \/ PollRaises

SpecUpload == InitUpload /\ [][NextUpload]_vars

----------------------------------------------------------------------------
(* File search service: stores and queries (gemini_file_search.py) *)

\* the most grounding chunks of a candidate
MaxChunks == 2

\* the title put in place of a missing one
UnknownSource == <<"Unknown Source">>

\* the titles of a retrieved context: None, "", a title, and a document that
\* is itself called Unknown Source
Titles == {None, <<>>, <<"a">>, UnknownSource}

\* None in the place of a retrieved context
NoContext == [absent |-> TRUE]

\* None in the place of the grounding metadata
NoMetadata == [absent |-> TRUE]

\* None in the place of a list
NoList == [absent |-> TRUE]

\* a list, in a place that also holds None
List(seq) == [list |-> seq]

\* truth value of an Optional[list]: None and [] are falsy
TruthyList(l) == l # NoList /\ l.list # <<>>

Chunk(context) == [retrieved_context |-> context]

Chunks == {Chunk(NoContext)} \cup {Chunk([title |-> t]) : t \in Titles}

ChunkLists == UNION {[1..n -> Chunks] : n \in 0..MaxChunks}

Candidate(metadata) == [grounding_metadata |-> metadata]

\* the candidates of a response: without grounding metadata, with metadata
\* without chunks, with a list of chunks
Candidates ==
    {Candidate(NoMetadata), Candidate([grounding_chunks |-> NoList])}
    \cup {Candidate([grounding_chunks |-> List(cs)]) : cs \in ChunkLists}

\* a second candidate, with a chunk of its own
OtherCandidate ==
    Candidate([grounding_chunks |-> List(<<Chunk([title |-> <<"b">>])>>)])

QueryResponse(t, c) == [text |-> t, candidates |-> c]

\* what generate_content returns to query_rag: an answer or none, and no
\* candidates, one candidate or two
QueryResponses ==
    {QueryResponse(t, c) :
        t \in {None, <<"a">>},
        c \in {NoList, List(<<>>)}
              \cup {List(<<c1>>) : c1 \in Candidates}
              \cup {List(<<c1, OtherCandidate>>) :
                      c1 \in {Candidate(NoMetadata), OtherCandidate}}}

\* the responses the chat is run with: an answer grounded on one document
\* cited twice, and no answer
SampleResponses ==
    {QueryResponse(<<"a">>,
         List(<<Candidate([grounding_chunks |->
                  List(<<Chunk([title |-> <<"a">>]),
                         Chunk([title |-> <<"a">>])>>)])>>)),
     QueryResponse(None, NoList)}

\* title_or_unknown that keeps an empty title
title_or_unknown_KeepsEmpty(t) == IF t # None THEN t ELSE UnknownSource

\* `chunk.retrieved_context.title or "Unknown Source"`
title_or_unknown(t) == IF Truthy(t) THEN t ELSE UnknownSource

\* the chunks the citation loop reads: those of the first candidate, when
\* there is one with grounding metadata that has chunks
grounding_chunks(response) ==
    IF ~TruthyList(response.candidates)
    THEN <<>>
    ELSE LET metadata == response.candidates.list[1].grounding_metadata
         IN IF metadata = NoMetadata
            THEN <<>>
            ELSE IF TruthyList(metadata.grounding_chunks)
                 THEN metadata.grounding_chunks.list
                 ELSE <<>>

\* the list `citations` after the loop: one title for each chunk with a
\* retrieved context, in the order of the chunks
appended_citations(response) ==
    LET retrieved == SelectSeq(grounding_chunks(response),
                               LAMBDA c : c.retrieved_context # NoContext)
    IN [k \in 1..Len(retrieved) |->
           title_or_unknown(retrieved[k].retrieved_context.title)]

Range(seq) == {seq[k] : k \in 1..Len(seq)}

\* `list(set(citations))`: the elements once each, in one of the orders the
\* iteration of a set can have
list_set(seq) ==
    LET S == Range(seq)
    IN {l \in [1..Cardinality(S) -> S] : Range(l) = S}

QueryNotConfigured ==
    [answer |-> None, citations |-> <<>>, error |-> <<"API Key missing">>]

\* QueryFailure that keeps the error unset
QueryFailure_NullError(e) ==
    [answer |-> None, citations |-> <<>>, error |-> None]

QueryFailure(e) ==
    [answer |-> None, citations |-> <<>>, error |-> <<"Query error: ", e>>]

QuerySuccess(answer, citations) ==
    [answer |-> answer, citations |-> citations, error |-> None]

\* what an operation of the service leaves to its caller: the value it
\* returned, or the exception that left it
ServiceReturns(op, value) == [op |-> op, value |-> value]

ServiceRaises(op, e) == [op |-> op, raised |-> e]

\* the except clause of an operation whose failure value is value
ExceptReturns(op, e, value) ==
    IF Catches(e) THEN ServiceReturns(op, value) ELSE ServiceRaises(op, e)

\* create_file_search_store on an unconfigured service
create_unconfigured ==
    /\ service_result' = ServiceReturns("create_file_search_store", None)
    /\ remote_calls' = <<>>
    /\ UNCHANGED <<created_stores, remote_stores>>

\* file_search_stores.create returns a new store
create_returns ==
    LET name == StoreName(Cardinality(created_stores) + 1)
    IN /\ created_stores' = created_stores \cup {name}
       /\ remote_stores' = remote_stores \cup {name}
       /\ service_result' = ServiceReturns("create_file_search_store", name)
       /\ remote_calls' =
             <<RemoteCall("file_search_stores.create", "returned")>>

\* file_search_stores.create raises
create_raises(e) ==
    /\ service_result' = ExceptReturns("create_file_search_store", e, None)
    /\ remote_calls' = <<RemoteCall("file_search_stores.create", e)>>
    /\ UNCHANGED <<created_stores, remote_stores>>

\* query_rag on an unconfigured service
query_unconfigured ==
    /\ service_result' = ServiceReturns("query_rag", QueryNotConfigured)
    /\ remote_calls' = <<>>
    /\ query_response' = NoResponse

\* generate_content returns response: the answer and the citations
query_returns(response) ==
    /\ \E citations \in list_set(appended_citations(response)) :
          service_result' =
              ServiceReturns("query_rag",
                             QuerySuccess(response.text, citations))
    /\ remote_calls' = <<RemoteCall("generate_content", "returned")>>
    /\ query_response' = response

\* generate_content raises
query_raises(e) ==
    /\ service_result' = ExceptReturns("query_rag", e, QueryFailure(e))
    /\ remote_calls' = <<RemoteCall("generate_content", e)>>
    /\ query_response' = NoResponse

\* delete_store on an unconfigured service
delete_unconfigured ==
    /\ service_result' = ServiceReturns("delete_store", FALSE)
    /\ remote_calls' = <<>>
    /\ UNCHANGED remote_stores

\* file_search_stores.delete returns: the store is deleted
delete_returns(sid) ==
    /\ remote_stores' = remote_stores \ {sid}
    /\ service_result' = ServiceReturns("delete_store", TRUE)
    /\ remote_calls' = <<RemoteCall("file_search_stores.delete", "returned")>>

\* file_search_stores.delete raises
delete_raises(e) ==
    /\ service_result' = ExceptReturns("delete_store", e, FALSE)
    /\ remote_calls' = <<RemoteCall("file_search_stores.delete", e)>>
    /\ UNCHANGED remote_stores

\* no operation of the service is running
ServiceIdle == upload_pc \in {"idle", "returned"}

\* the arguments, the locals and the result of an upload_files_to_store that
\* returned are gone when the next operation is called; the temporary files
\* stay
UploadForgotten ==
    /\ upload_pc' = "idle"
    /\ uploaded_files' = <<>>
    /\ file_index' = 0
    /\ operation' = NoOperation
    /\ polls' = 0
    /\ uploaded_count' = 0
    /\ observed_done' = {}
    /\ upload_result' = NoResult
    /\ store_id' = None
    /\ indexed' = {}
    /\ UNCHANGED <<rag_is_configured, temp_files>>

\* what a call of the service from outside the chat leaves alone
ServiceFrame ==
    /\ UNCHANGED <<api_key, model_name, is_configured, client, pc, request,
                   i, stories, calls, outcomes, warnings, result, session>>
    /\ UNCHANGED chat

CreateStoreUnconfigured ==
    /\ ServiceIdle
    /\ ~rag_is_configured
    /\ create_unconfigured
    /\ UploadForgotten
    /\ UNCHANGED query_response
    /\ ServiceFrame

CreateStoreReturns ==
    /\ ServiceIdle
    /\ rag_is_configured
    /\ Cardinality(created_stores) < MaxStores
    /\ create_returns
    /\ UploadForgotten
    /\ UNCHANGED query_response
    /\ ServiceFrame

CreateStoreRaises ==
    /\ ServiceIdle
    /\ rag_is_configured
    /\ \E e \in Exceptions : create_raises(e)
    /\ UploadForgotten
    /\ UNCHANGED query_response
    /\ ServiceFrame

QueryUnconfigured ==
    /\ ServiceIdle
    /\ ~rag_is_configured
    /\ query_unconfigured
    /\ UploadForgotten
    /\ UNCHANGED <<created_stores, remote_stores>>
    /\ ServiceFrame

\* query_rag in which generate_content returns one of responses
QueryAnswered(responses) ==
    /\ ServiceIdle
    /\ rag_is_configured
    /\ \E response \in responses : query_returns(response)
    /\ UploadForgotten
    /\ UNCHANGED <<created_stores, remote_stores>>
    /\ ServiceFrame

QueryReturns == QueryAnswered(QueryResponses)

QueryReturnsSample == QueryAnswered(SampleResponses)

QueryRaises ==
    /\ ServiceIdle
    /\ rag_is_configured
    /\ \E e \in Exceptions : query_raises(e)
    /\ UploadForgotten
    /\ UNCHANGED <<created_stores, remote_stores>>
    /\ ServiceFrame

DeleteUnconfigured ==
    /\ ServiceIdle
    /\ ~rag_is_configured
    /\ delete_unconfigured
    /\ UploadForgotten
    /\ UNCHANGED <<created_stores, query_response>>
    /\ ServiceFrame

\* the provider deletes a store it has
DeleteReturns ==
    /\ ServiceIdle
    /\ rag_is_configured
    /\ \E sid \in remote_stores : delete_returns(sid)
    /\ UploadForgotten
    /\ UNCHANGED <<created_stores, query_response>>
    /\ ServiceFrame

DeleteRaises ==
    /\ ServiceIdle
    /\ rag_is_configured
    /\ \E e \in Exceptions : delete_raises(e)
    /\ UploadForgotten
    /\ UNCHANGED <<created_stores, query_response>>
    /\ ServiceFrame

\* query_rag alone, with every response of the provider
NextQuery ==
    \/ QueryUnconfigured
    \/ QueryReturns
    \/ QueryRaises

SpecQuery == InitUpload /\ [][NextQuery]_vars

\* the four operations of the service, called one after the other
NextFileSearch ==
    \/ CreateStoreUnconfigured
    \/ CreateStoreReturns
    \/ CreateStoreRaises
    \/ UploadUnconfigured
    \/ UploadBegin
    \/ WriteTempFile
    \/ WriteTempFileRaises
    \/ UploadCallReturns
    \/ UploadCallRaises
    \/ PollReturns
    \/ PollRaises
    \/ QueryUnconfigured
    \/ QueryReturnsSample
    \/ QueryRaises
    \/ DeleteUnconfigured
    \/ DeleteReturns
    \/ DeleteRaises

SpecFileSearch == InitUpload /\ [][NextFileSearch]_vars

----------------------------------------------------------------------------
(* Document chat (rag_chat.py, file_handler.py) *)

\* the most questions kept in the chat history
MaxQuestions == 1

\* settings.py
MAX_FILE_SIZE_MB == 50

ALLOWED_FILE_TYPES ==
    {<<"p", "d", "f">>, <<"t", "x", "t">>, <<"c", "s", "v">>,
     <<"d", "o", "c", "x">>, <<"j", "s", "o", "n">>, <<"m", "d">>}

\* the bytes of a megabyte: 1024 * 1024
BytesPerMB == 1048576

\* an uploaded file: its name and its size in bytes
File(name, size) == [name |-> name, size |-> size]

\* the files the user has at hand: a PDF with an upper-case extension and of
\* exactly the largest size, a program, and a Markdown file one byte too
\* large
UploaderFiles ==
    <<File(<<"A", ".", "P", "D", "F">>, MAX_FILE_SIZE_MB * BytesPerMB),
      File(<<"c", ".", "e", "x", "e">>, 1),
      File(<<"d", ".", "m", "d">>, MAX_FILE_SIZE_MB * BytesPerMB + 1)>>

\* what the file uploader holds when Process Documents is shown: some of the
\* files, at least one
UploaderLists ==
    {SelectSeq(UploaderFiles, LAMBDA f : f \in chosen) :
        chosen \in {S \in SUBSET Range(UploaderFiles) :
                       Cardinality(S) \in 1..MaxFiles}}

\* str.lower() of a character
lower_char(c) ==
    CASE c = "P" -> "p"
      [] c = "D" -> "d"
      [] c = "F" -> "f"
      [] c = "A" -> "a"
      [] OTHER -> c

lower(s) == [k \in 1..Len(s) |-> lower_char(s[k])]

\* `name.split('.')[-1].lower()`: what follows the last dot, or the whole
\* name
file_extension(name) ==
    LET dots == {k \in 1..Len(name) : name[k] = "."}
        from == IF dots = {}
                THEN 1
                ELSE 1 + CHOOSE k \in dots : \A d \in dots : d <= k
    IN lower(SubSeq(name, from, Len(name)))

\* validate_uploaded_file that does not look at the size
validate_uploaded_file_AnySize(f) ==
    file_extension(f.name) \in ALLOWED_FILE_TYPES

\* is_valid of validate_uploaded_file: size / (1024 * 1024) is compared with
\* the limit, which is the comparison of the bytes
validate_uploaded_file(f) ==
    /\ file_extension(f.name) \in ALLOWED_FILE_TYPES
    /\ ~(f.size > MAX_FILE_SIZE_MB * BytesPerMB)

\* the list valid_files after the validation loop
validated(files) == SelectSeq(files, validate_uploaded_file)

\* `[f.name for f in valid_files]`
file_names(files) == [k \in 1..Len(files) |-> files[k].name]

\* the questions typed: blank, and a question
Questions == {<<" ">>, <<"a">>}

NoValidFiles == <<"No valid files to process!">>
StoreFailed == <<"Failed to create file search store">>
EnterQuestion == <<"Please enter a question!">>

WarningMessage(text) == [kind |-> "warning", text |-> text]

\* the answer and the sources shown
AnswerShown(res) ==
    [kind |-> "answer", text |-> res.answer, citations |-> res.citations]

\* the entry of rag_chat_history
ChatEntry(question, res) ==
    [question |-> question, answer |-> res.answer,
     citations |-> res.citations]

\* a story kept in the session of the console next to the chat
SampleStory ==
    Story(Response(<<"a">>, <<[finish_reason |-> "STOP"]>>,
                   [total_token_count |-> 1]), 0)

\* the services after construction and the session: the chat's keys are not
\* set, the console has no story or has one that is selected
InitChat ==
    /\ api_key \in ApiKeys
    /\ model_name = GEMINI_CREATIVE_MODEL
    /\ is_configured = InitIsConfigured(api_key, "ok")
    /\ client = InitClient(api_key, "ok")
    /\ pc = "idle"
    /\ request = NoRequest
    /\ i = 0
    /\ stories = <<>>
    /\ calls = <<>>
    /\ outcomes = <<>>
    /\ warnings = <<>>
    /\ result = NoResult
    /\ story_idea = <<>>
    /\ \/ generated_stories = <<>> /\ selected_story = NoStory
       \/ generated_stories = <<SampleStory>> /\ selected_story = SampleStory
    /\ viewing_story = NoStory
    /\ ui_message = NoMessage
    /\ \E ci \in ClientInits : InitRag(ci)

\* what upload_files_to_store does with one file: the provider indexes it,
\* the operation is done with an error, or an exception (of the temporary
\* file, of the upload call, of a poll) ends the call
Indexed == "indexed"
DoneWithError == "failed"
FileOutcomes == {Indexed, DoneWithError} \cup Exceptions \cup FileExceptions

\* the file is counted
Counted(outcome) == outcome \in {Indexed, DoneWithError}

\* the ways an upload_files_to_store(files, sid) on a configured service
\* goes, file by file: every file is counted, or the files before the one
\* whose exception ends the call are
UploadRuns(files) ==
    {run \in UNION {[1..n -> FileOutcomes] : n \in 0..Len(files)} :
        /\ \A k \in 1..(Len(run) - 1) : Counted(run[k])
        /\ Len(run) < Len(files) =>
              /\ run # <<>>
              /\ ~Counted(run[Len(run)])}

\* the tuple the call returns at the end of run
RunResult(run) ==
    IF run = <<>> \/ Counted(run[Len(run)])
    THEN UploadSuccess(Len(run))
    ELSE UploadFailure(run[Len(run)])

\* the pairs the provider indexed in run
RunIndexed(run, files, sid) ==
    {<<sid, files[k]>> : k \in {j \in 1..Len(run) : run[j] = Indexed}}

\* the ways are those of the steps of upload_files_to_store: what a call
\* that returned left is what one of the ways leaves (an invariant of
\* SpecUpload)
UploadRunsAgree ==
    (upload_pc = "returned" /\ rag_is_configured) =>
        \E run \in UploadRuns(uploaded_files) :
            /\ upload_result = RunResult(run)
            /\ indexed = RunIndexed(run, uploaded_files, store_id)
            /\ uploaded_count =
                  Cardinality({k \in 1..Len(run) : Counted(run[k])})

\* what the chat leaves alone: the story service and the console
ChatFrame ==
    UNCHANGED <<api_key, model_name, is_configured, client, pc, request,
                i, stories, calls, outcomes, warnings, result, session>>

\* the script got past the check of GEMINI_API_KEY
ChatShown == api_key # ""

\* ChatRendered that shows the question input always
ChatRendered_Always == TRUE

\* `if st.session_state.get('rag_files_uploaded')` of the chat interface
ChatRendered == rag_files_uploaded

\* `if st.session_state.get('rag_files_uploaded')` of the Clear button
ClearRendered == rag_files_uploaded

\* a run of the script without GEMINI_API_KEY: the error and the return
ChatNoKey ==
    /\ api_key = ""
    /\ chat_message' = ErrorMessage(NO_GEMINI_KEY)
    /\ UNCHANGED <<rag_files_uploaded, rag_store_id, uploaded_file_names,
                   rag_chat_history, chat_handler, uploader, valid_files>>
    /\ UNCHANGED <<rag, remote>>
    /\ ChatFrame

\* the run does not come to upload_files_to_store: what is known of the call
\* of an earlier run is gone, but for the store and what it holds
NoUpload ==
    /\ upload_pc' = "idle"
    /\ uploaded_files' = <<>>
    /\ uploaded_count' = 0
    /\ upload_result' = NoResult
    /\ UNCHANGED <<rag_is_configured, file_index, operation, polls,
                   temp_files, observed_done>>
    /\ UNCHANGED <<store_id, indexed>>

\* Process Documents with files of which none passes the validation
ProcessNoValidFiles ==
    /\ ChatShown
    /\ \E files \in UploaderLists :
          /\ validated(files) = <<>>
          /\ uploader' = files
    /\ valid_files' = <<>>
    /\ chat_message' = ErrorMessage(NoValidFiles)
    /\ chat_handler' = "process"
    /\ NoUpload
    /\ UNCHANGED <<rag_files_uploaded, rag_store_id, uploaded_file_names,
                   rag_chat_history>>
    /\ query_response' = NoResponse
    /\ UNCHANGED <<created_stores, remote_stores, service_result,
                   remote_calls>>
    /\ ChatFrame

\* Process Documents with a valid file in which create_file_search_store
\* returns None
ProcessCreateFails ==
    /\ ChatShown
    /\ \E files \in UploaderLists :
          /\ validated(files) # <<>>
          /\ uploader' = files
          /\ valid_files' = validated(files)
    /\ IF rag_is_configured
       THEN \E e \in Exceptions : create_raises(e)
       ELSE create_unconfigured
    /\ ~Truthy(service_result'.value)
    /\ chat_message' = ErrorMessage(StoreFailed)
    /\ chat_handler' = "process"
    /\ NoUpload
    /\ UNCHANGED <<rag_files_uploaded, rag_store_id, uploaded_file_names,
                   rag_chat_history>>
    /\ query_response' = NoResponse
    /\ ChatFrame

\* `[f.name for f in valid_files]` of Process Documents
stored_names(files, valid) == file_names(valid)

\* Process Documents with a valid file in which the store is created: the
\* store is put in the session, upload_files_to_store is called with the
\* valid files and the store and goes one of its ways, and the session is set
\* when it reports success. The polls and the temporary files of the call
\* are not followed here.
ProcessUploaded ==
    /\ ChatShown
    /\ rag_is_configured
    /\ Cardinality(created_stores) < MaxStores
    /\ create_returns
    /\ Truthy(service_result'.value)
    /\ rag_store_id' = service_result'.value
    /\ \E files \in UploaderLists :
          /\ validated(files) # <<>>
          /\ uploader' = files
          /\ valid_files' = validated(files)
          /\ uploaded_files' = validated(files)
          /\ \E run \in UploadRuns(validated(files)) :
                /\ upload_result' = RunResult(run)
                /\ indexed' = RunIndexed(run, validated(files),
                                         service_result'.value)
                /\ uploaded_count' =
                      Cardinality({k \in 1..Len(run) : Counted(run[k])})
          /\ uploaded_file_names' =
                IF upload_result'.success
                THEN stored_names(files, validated(files))
                ELSE uploaded_file_names
    /\ store_id' = service_result'.value
    /\ upload_pc' = "returned"
    /\ IF upload_result'.success
       THEN /\ rag_files_uploaded' = TRUE
            /\ chat_message' = SuccessMessage(upload_result'.message)
       ELSE /\ rag_files_uploaded' = rag_files_uploaded
            /\ chat_message' = ErrorMessage(upload_result'.message)
    /\ chat_handler' = "process"
    /\ UNCHANGED <<rag_is_configured, file_index, operation, polls,
                   temp_files, observed_done>>
    /\ rag_chat_history' = rag_chat_history
    /\ query_response' = NoResponse
    /\ ChatFrame

\* the run is not one of Process Documents
NoProcess ==
    /\ uploader' = <<>>
    /\ valid_files' = <<>>
    /\ NoUpload

\* Ask with a blank question
AskBlank ==
    /\ ChatShown
    /\ ChatRendered
    /\ \E question \in Questions : strip(question) = <<>>
    /\ chat_message' = WarningMessage(EnterQuestion)
    /\ chat_handler' = "ask"
    /\ NoProcess
    /\ UNCHANGED <<rag_files_uploaded, rag_store_id, uploaded_file_names,
                   rag_chat_history>>
    /\ UNCHANGED <<created_stores, remote_stores, service_result,
                   remote_calls, query_response>>
    /\ ChatFrame

\* Ask with a question, after the return of query_rag: the error, or the
\* answer and the new entry of the history
AskQuestion ==
    /\ ChatShown
    /\ ChatRendered
    /\ \E question \in Questions :
          /\ strip(question) # <<>>
          /\ IF Truthy(service_result'.value.error)
             THEN /\ chat_message' = ErrorMessage(service_result'.value.error)
                  /\ rag_chat_history' = rag_chat_history
             ELSE /\ chat_message' = AnswerShown(service_result'.value)
                  /\ rag_chat_history' =
                        Append(rag_chat_history,
                               ChatEntry(question, service_result'.value))
    /\ chat_handler' = "ask"
    /\ NoProcess
    /\ UNCHANGED <<rag_files_uploaded, rag_store_id, uploaded_file_names>>
    /\ UNCHANGED <<created_stores, remote_stores>>
    /\ ChatFrame

\* Ask in which query_rag returns an answer
AskAnswered ==
    /\ rag_is_configured
    /\ Len(rag_chat_history) < MaxQuestions
    /\ \E response \in SampleResponses : query_returns(response)
    /\ AskQuestion

\* Ask in which query_rag returns an error
AskFails ==
    /\ IF rag_is_configured
       THEN \E e \in Exceptions : query_raises(e)
       ELSE query_unconfigured
    /\ AskQuestion

\* the four assignments of Clear All; the rerun of the script shows none of
\* the messages
ClearSession ==
    /\ rag_files_uploaded' = FALSE
    /\ rag_store_id' = None
    /\ uploaded_file_names' = <<>>
    /\ rag_chat_history' = <<>>
    /\ chat_message' = NoMessage
    /\ chat_handler' = "clear"
    /\ NoProcess
    /\ query_response' = NoResponse
    /\ created_stores' = created_stores
    /\ ChatFrame

\* Clear All in which delete_store deletes the store of the session
ClearAllDeleted ==
    /\ ChatShown
    /\ ClearRendered
    /\ Truthy(rag_store_id)
    /\ rag_is_configured
    /\ rag_store_id \in remote_stores
    /\ delete_returns(rag_store_id)
    /\ ClearSession

\* Clear All in which delete_store fails, or is not called for want of a
\* store
ClearAllNotDeleted ==
    /\ ChatShown
    /\ ClearRendered
    /\ IF ~Truthy(rag_store_id)
       THEN UNCHANGED <<service_result, remote_calls, remote_stores>>
       ELSE IF rag_is_configured
            THEN \E e \in Exceptions : delete_raises(e)
            ELSE delete_unconfigured
    /\ ClearSession

NextRag ==
    \/ ChatNoKey
    \/ ProcessNoValidFiles
    \/ ProcessCreateFails
    \/ ProcessUploaded
    \/ AskBlank
    \/ AskAnswered
    \/ AskFails
    \/ ClearAllDeleted
    \/ ClearAllNotDeleted

SpecRag == InitChat /\ [][NextRag]_vars

----------------------------------------------------------------------------
(* Vocabulary of the properties *)

N == request.number_of_variations

Done == pc = "done"

IsRaise(o) == o.kind = "raise"

IsResponse(o) == o.kind = "response"

\* a response without usable text: response.text is None or ""
EmptyText(o) == IsResponse(o) /\ ~Truthy(o.text)

\* a response with text and the given finish reasons
TextWithFinish(o, reasons) ==
    /\ IsResponse(o)
    /\ Truthy(o.text)
    /\ o.candidates # <<>>
    /\ o.candidates[1].finish_reason \in reasons

Complete(o) == TextWithFinish(o, {"STOP"})

Partial(o) == TextWithFinish(o, {"MAX_TOKENS", "SAFETY"})

SomeRaise == \E k \in 1..Len(outcomes) : IsRaise(outcomes[k])

\* the number of provider calls issued for variation v
CallsFor(v) == Cardinality({k \in 1..Len(calls) : calls[k].variation = v})

\* variation v has been answered by the provider at least once
Answered(v) == \E k \in 1..Len(outcomes) : calls[k].variation = v

\* the indices of the answered calls of variation v
AttemptsOf(v) == {k \in 1..Len(outcomes) : calls[k].variation = v}

\* the first call issued for variation v
FirstCallOf(v) ==
    CHOOSE k \in 1..Len(calls) :
        /\ calls[k].variation = v
        /\ \A j \in 1..(k - 1) : calls[j].variation # v

\* what the provider answered to the first call of variation v
PrimaryOutcome(v) == outcomes[FirstCallOf(v)]

\* s contains sub as a substring
Contains(s, sub) ==
    \E p \in 1..(Len(s) - Len(sub) + 1) :
        \A q \in 1..Len(sub) : s[p + q - 1] = sub[q]

\* the whitespace-separated tokens of s, counted by their last characters
WhitespaceTokenCount(s) ==
    Cardinality({p \in 1..Len(s) :
                    /\ ~IsSpace(s[p])
                    /\ (p = Len(s) \/ IsSpace(s[p + 1]))})

\* the finish reasons and the model name as they would be spelled in a str
FinishReasonStr ==
    [f \in FinishReasons \cup {"Unknown"} |->
        CASE f = "STOP" -> <<"S", "T", "O", "P">>
          [] f = "MAX_TOKENS" -> <<"M", "A", "X", "_", "T", "O", "K", "E", "N", "S">>
          [] f = "SAFETY" -> <<"S", "A", "F", "E", "T", "Y">>
          [] f = "Unknown" -> <<"U", "n", "k", "n", "o", "w", "n">>]

ModelNameStr ==
    <<"g", "e", "m", "i", "n", "i", "-", "1", ".", "5", "-", "p", "r", "o">>

----------------------------------------------------------------------------
(* C1 *)

----------------------------------------------------------------------------
(* C2 *)

----------------------------------------------------------------------------
(* C3 *)

\* C3: on a service that is not configured (empty API key, or client
\* construction failed) generate_stories returns no stories and a non-null
\* error, and no provider call is issued.
C3_UnconfiguredNoCalls ==
    (api_key = "" \/ client = "None") =>
        /\ calls = <<>>
        /\ pc \in {"idle", "done"}
        /\ Done => (result.stories = <<>> /\ result.error # None)

C3_Witness ==
    /\ Done
    /\ api_key # ""
    /\ client = "None"
    /\ result.error # None

----------------------------------------------------------------------------
(* C4 *)

----------------------------------------------------------------------------
(* C5 *)

----------------------------------------------------------------------------
(* C6 *)

\* C6 as stated: when every attempt of a variation has no usable text, its
\* content is a non-empty placeholder that names the finish reason the
\* provider reported and the model.
C6_PlaceholderNamesReason ==
    (Done /\ result.error = None) =>
        \A v \in 1..N :
            (\A k \in AttemptsOf(v) : EmptyText(outcomes[k])) =>
                /\ result.stories[v].content # <<>>
                /\ \E k \in AttemptsOf(v) :
                      Contains(result.stories[v].content,
                               FinishReasonStr[WarnedFinishReason(outcomes[k])])
                /\ Contains(result.stories[v].content, ModelNameStr)

\* C6 amended: when the attempt of a variation has no usable text, its
\* content is a non-empty generic placeholder that names the variation
\* number, and neither the finish reason nor the model; the finish reason
\* goes to the log only.
C6_GenericPlaceholder ==
    (Done /\ result.error = None) =>
        \A v \in 1..N :
            (\A k \in AttemptsOf(v) : EmptyText(outcomes[k])) =>
                /\ result.stories[v].content # <<>>
                /\ Contains(result.stories[v].content, <<DigitStr[v], ".">>)
                /\ \A f \in DOMAIN FinishReasonStr :
                      ~Contains(result.stories[v].content, FinishReasonStr[f])
                /\ ~Contains(result.stories[v].content, ModelNameStr)
                /\ \A k \in AttemptsOf(v) :
                      \E w \in 1..Len(warnings) :
                          warnings[w] = <<v, WarnedFinishReason(outcomes[k])>>

C6_Witness ==
    /\ Done /\ result.error = None /\ N >= 2
    /\ EmptyText(outcomes[1]) /\ EmptyText(outcomes[2])
    /\ outcomes[1].candidates = <<>>
    /\ outcomes[2].candidates # <<>>
    /\ result.stories[1].content # <<>>
    /\ result.stories[2].content # <<>>

----------------------------------------------------------------------------
(* C7 *)

\* C7: a variation whose primary attempt returned complete, non-empty text
\* has exactly that text as content and exactly one provider call; when every
\* primary attempt of the batch is complete, N calls are made in all.
C7_CompletePrimaryKept ==
    /\ \A k \in 1..Len(stories) :
          Complete(outcomes[k]) =>
              /\ stories[k].content = outcomes[k].text
              /\ CallsFor(k) = 1
    /\ (Done /\ result.error = None) =>
          \A k \in 1..Len(result.stories) :
              Complete(outcomes[k]) =>
                  result.stories[k].content = outcomes[k].text
    /\ (Done /\ Len(outcomes) = N
             /\ \A k \in 1..Len(outcomes) : Complete(outcomes[k])) =>
          Len(calls) = N

C7_Witness ==
    /\ Done /\ N >= 2 /\ Len(outcomes) = N
    /\ \A k \in 1..Len(outcomes) : Complete(outcomes[k])
    /\ Len(calls) = N
    /\ \A k \in 1..N : result.stories[k].content = outcomes[k].text

----------------------------------------------------------------------------
(* C8 *)

\* C8: a variation whose primary attempt ended truncated or filtered with
\* non-empty partial text has that text as content, and no second provider
\* call is made for it.
C8_PartialTextAccepted ==
    /\ \A k \in 1..Len(stories) :
          Partial(outcomes[k]) =>
              /\ stories[k].content = outcomes[k].text
              /\ CallsFor(k) = 1
    /\ (Done /\ result.error = None) =>
          \A k \in 1..Len(result.stories) :
              Partial(outcomes[k]) =>
                  result.stories[k].content = outcomes[k].text

C8_Witness ==
    /\ Done /\ result.error = None
    /\ \E k \in 1..Len(outcomes) :
          /\ TextWithFinish(outcomes[k], {"MAX_TOKENS"})
          /\ result.stories[k].content = outcomes[k].text
          /\ CallsFor(k) = 1
    /\ \E k \in 1..Len(outcomes) :
          /\ TextWithFinish(outcomes[k], {"SAFETY"})
          /\ result.stories[k].content = outcomes[k].text

----------------------------------------------------------------------------
(* C9 *)

\* C9: every returned story has a non-empty content str, and its word_count
\* is the number of whitespace-separated tokens of that content, for model
\* text and for the error placeholder alike.
C9_ContentNonEmptyWordCount ==
    Done =>
        \A k \in 1..Len(result.stories) :
            /\ result.stories[k].content # None
            /\ result.stories[k].content # <<>>
            /\ result.stories[k].word_count =
                  WhitespaceTokenCount(result.stories[k].content)

C9_Witness ==
    /\ Done /\ Len(result.stories) >= 2
    /\ \E k \in 1..Len(result.stories) :
          /\ EmptyText(outcomes[k])
          /\ result.stories[k].word_count > 1
    /\ \E k \in 1..Len(result.stories) :
          /\ ~EmptyText(outcomes[k])
          /\ result.stories[k].word_count = 1

----------------------------------------------------------------------------
(* C10 *)

\* C10: no exception leaves generate_stories: whatever the provider does,
\* a raising call and a response without candidates included, the call ends
\* with a result that has a 'stories' list and an 'error' field.
C10_NeverRaises ==
    /\ pc # "raised"
    /\ SomeRaise => Done
    /\ Done => DOMAIN result = {"stories", "error"}
    /\ \A k \in 1..Len(outcomes) :
          (IsResponse(outcomes[k]) /\ outcomes[k].candidates = <<>>) =>
              Len(stories) >= k

C10_Witness ==
    /\ Done
    /\ Len(outcomes) >= 2
    /\ IsResponse(outcomes[1]) /\ outcomes[1].candidates = <<>>
    /\ IsRaise(outcomes[Len(outcomes)])
    /\ DOMAIN result = {"stories", "error"}

----------------------------------------------------------------------------
(* C11 *)

----------------------------------------------------------------------------
(* C12 *)

\* C12: the provider calls of a batch are strictly sequential: at most one
\* call is outstanding, the k-th call is the one of variation k, and it is
\* issued only after every earlier call has been answered.
C12_CallsSequential ==
    /\ Len(calls) - Len(outcomes) \in {0, 1}
    /\ (pc = "call") <=> (Len(calls) = Len(outcomes) + 1)
    /\ \A k \in 1..Len(calls) :
          /\ calls[k].variation = k
          /\ k - 1 <= Len(outcomes)
    /\ \A v \in 1..N : CallsFor(v) <= 1

C12_Witness ==
    /\ pc = "call"
    /\ Len(calls) = 2
    /\ Len(outcomes) = 1
    /\ calls[2].variation = 2

----------------------------------------------------------------------------
(* C13 *)

\* at most two calls per variation, at most 2N in all, and no two calls of a
\* variation to the same model
C13_CallBounds ==
    /\ \A v \in 1..N : CallsFor(v) <= 2
    /\ Len(calls) <= 2 * N
    /\ \A j, k \in 1..Len(calls) :
          (j # k /\ calls[j].variation = calls[k].variation) =>
              calls[j].model # calls[k].model

\* what is left of generate_stories: the calls to issue and to wait for
C13_Measure ==
    CASE pc = "idle" -> 2 * MaxN + 2
      [] pc = "loop" -> 2 * (N - i) + 1
      [] pc = "call" -> 2 * (N - i)
      [] OTHER -> 0

\* C13: when every provider call returns (text, nothing, or a fault),
\* generate_stories terminates: until it has returned a step is always
\* possible, and every step, whatever the provider answers, leaves strictly
\* less to do; it issues at most two calls per variation, at most 2N in
\* all, and none twice to the same model for the same variation.
C13_TerminatesWithinBounds ==
    /\ []C13_CallBounds
    /\ [](~Done => ENABLED Next)
    /\ [][C13_Measure' < C13_Measure]_vars

C13_Witness ==
    /\ Done /\ N >= 2
    /\ Len(calls) = N
    /\ Len(outcomes) = N
    /\ C13_CallBounds

----------------------------------------------------------------------------
(* C14 *)

\* the call generate_stories would issue for variation v had the request
\* asked for w words
CallWithTarget(v, w) ==
    GenerateContentCall([request EXCEPT !.target_word_count = w], v - 1,
                        model_name)

\* C14 as stated: the output-token ceiling of every call is the same for
\* every target word count of the allowed range, and it is above the
\* largest allowed target, which takes at least a token per word.
C14_CeilingIndependentOfTarget ==
    \A k \in 1..Len(calls) :
        /\ \A w \in WordCounts :
              calls[k].max_output_tokens = CallWithTarget(k, w).max_output_tokens
        /\ calls[k].max_output_tokens > MaxWords

\* C14 amended: the output-token ceiling of every call is one and a half
\* times the requested target word count, rounded down: it follows the
\* target, is above it, and is the same on every call of the batch.
C14_CeilingFollowsTarget ==
    \A k \in 1..Len(calls) :
        LET ceiling == calls[k].max_output_tokens
            target  == request.target_word_count
        IN  /\ 2 * ceiling <= 3 * target
            /\ 3 * target < 2 * ceiling + 2
            /\ ceiling > target
            /\ ceiling = calls[1].max_output_tokens

C14_Witness ==
    /\ Len(calls) = 2
    /\ request.target_word_count = 100
    /\ calls[2].max_output_tokens = 150

----------------------------------------------------------------------------
(* C15 *)

HazardCategories ==
    {"HARM_CATEGORY_HARASSMENT", "HARM_CATEGORY_HATE_SPEECH",
     "HARM_CATEGORY_SEXUALLY_EXPLICIT", "HARM_CATEGORY_DANGEROUS_CONTENT"}

\* C15: every provider call carries safety settings that name each of the
\* four hazard categories and set no threshold other than BLOCK_NONE.
C15_AllCategoriesBlockNone ==
    \A k \in 1..Len(calls) :
        LET settings == calls[k].safety_settings
        IN  /\ {settings[j].category : j \in 1..Len(settings)} = HazardCategories
            /\ \A j \in 1..Len(settings) : settings[j].threshold = "BLOCK_NONE"

C15_Witness ==
    /\ Len(calls) = 2
    /\ Len(calls[2].safety_settings) = 4
    /\ calls[2].safety_settings[3].category = "HARM_CATEGORY_SEXUALLY_EXPLICIT"
    /\ calls[2].safety_settings[3].threshold = "BLOCK_NONE"

----------------------------------------------------------------------------
(* C16 *)

\* C16 as stated: every returned story entry carries the name of the model
\* that produced it, and its title includes that model.
C16_EntryNamesModel ==
    Done =>
        \A k \in 1..Len(result.stories) :
            LET st == result.stories[k]
            IN  /\ "model" \in DOMAIN st
                /\ \E j \in 1..Len(st.title) : st.title[j] = calls[k].model

\* C16 amended: every returned story entry has exactly the fields id,
\* title, content, word_count and tokens_used; its title is "Story
\* Variation " followed by its number; neither names a model.
C16_EntryNamesVariationOnly ==
    Done =>
        \A k \in 1..Len(result.stories) :
            LET st == result.stories[k]
            IN  /\ DOMAIN st = {"id", "title", "content", "word_count",
                                "tokens_used"}
                /\ st.title = <<"Story Variation ", k>>

C16_Witness ==
    /\ Done /\ Len(result.stories) = 2
    /\ model_name = GEMINI_CREATIVE_MODEL
    /\ calls[2].model = GEMINI_CREATIVE_MODEL
    /\ result.stories[2].title = <<"Story Variation ", 2>>

----------------------------------------------------------------------------
(* C17 *)

\* the places of the f-string the arguments are formatted into
IdeaAt == 2
NumberAt == 5
WordsAt == 10

\* C17: the prompt of the k-th call embeds the story idea, the variation
\* number k and the requested target word count; the prompts of two calls
\* of a batch differ in the variation number and nowhere else; every call
\* is sent the requested temperature.
C17_PromptAndTemperature ==
    \A k \in 1..Len(calls) :
        /\ calls[k].contents[IdeaAt] = request.story_idea
        /\ calls[k].contents[NumberAt] = k
        /\ calls[k].contents[WordsAt] = request.target_word_count
        /\ calls[k].temperature = request.temperature
        /\ \A j \in 1..Len(calls) :
              /\ Len(calls[j].contents) = Len(calls[k].contents)
              /\ \A p \in 1..Len(calls[k].contents) :
                    (calls[j].contents[p] # calls[k].contents[p]) <=>
                        (p = NumberAt /\ j # k)

C17_Witness ==
    /\ Len(calls) = 2
    /\ request.temperature = MaxTemperature
    /\ calls[2].temperature = MaxTemperature
    /\ calls[1].contents[NumberAt] = 1
    /\ calls[2].contents[NumberAt] = 2
    /\ calls[2].contents[WordsAt] = MaxWords

----------------------------------------------------------------------------
(* C18 *)

\* s has a character that is not whitespace
HasText(s) == \E p \in 1..Len(s) : ~IsSpace(s[p])

\* C18: the story console calls generate_stories only with an idea that is
\* not blank, 1 to 5 variations, a temperature of 0.0 to 2.0 and a target
\* of 100 to 1000 words; a press of Generate with a blank idea issues no
\* provider call, starts no generation and leaves the stored stories as
\* they are.
C18_ConsoleCallsWithValidArguments ==
    /\ [](request # NoRequest =>
             /\ HasText(request.story_idea)
             /\ request.number_of_variations \in 1..5
             /\ request.temperature \in 0..20
             /\ request.target_word_count \in 100..1000)
    /\ [][~HasText(story_idea') =>
             /\ calls' = calls
             /\ pc' = "idle"
             /\ request' = NoRequest
             /\ generated_stories' = generated_stories]_vars

C18_Witness ==
    /\ pc = "idle"
    /\ story_idea = <<" ">>
    /\ ui_message = ErrorMessage(NO_IDEA)
    /\ Len(generated_stories) = 5
    /\ calls = <<>>

----------------------------------------------------------------------------
(* C19 *)

UploadReturned == upload_pc = "returned"

UploadSucceeded == UploadReturned /\ upload_result.success

\* C19: upload_files_to_store counts a file only once its operation was
\* seen done; while the operation is not done it has not returned and the
\* next poll is always possible, however many polls went before; it leaves
\* the wait only with a done operation or a raising call, and it returns
\* success exactly when the operation of the last file is seen done, every
\* file being counted then.
C19_PollsUntilDone ==
    /\ [](uploaded_count = Cardinality(observed_done))
    /\ [](upload_pc = "wait" =>
             /\ operation.done # "True"
             /\ ~UploadReturned
             /\ ENABLED PollReturns)
    /\ [][(upload_pc = "wait" /\ upload_pc' # "wait") =>
             \/ operation'.done = "True"
             \/ UploadReturned' /\ ~upload_result'.success]_vars
    /\ [](UploadSucceeded =>
             /\ observed_done = 1..Len(uploaded_files)
             /\ upload_result.count = Len(uploaded_files))
    /\ [][(observed_done' # observed_done
             /\ observed_done' = 1..Len(uploaded_files)) =>
             UploadSucceeded']_vars

C19_Witness ==
    /\ UploadSucceeded
    /\ Len(uploaded_files) = 2
    /\ polls = MaxPolls
    /\ observed_done = {1, 2}
    /\ upload_result.count = 2

----------------------------------------------------------------------------
(* C20 *)

\* C20: when generate_stories has returned a batch-level error, the console
\* leaves generated_stories, selected_story and viewing_story as they are;
\* generated_stories changes only to the stories of a result without error.
C20_ErrorKeepsSession ==
    /\ [][(pc = "done" /\ result.error # None) =>
             UNCHANGED <<generated_stories, selected_story, viewing_story>>]_vars
    /\ [][generated_stories' # generated_stories =>
             /\ pc = "done"
             /\ result.error = None
             /\ generated_stories' = result.stories]_vars

C20_Witness ==
    /\ pc = "idle"
    /\ ui_message.kind = "error"
    /\ ui_message.text \notin {NO_IDEA, NO_GEMINI_KEY}
    /\ Len(generated_stories) = 5
    /\ selected_story = generated_stories[2]
    /\ viewing_story = generated_stories[3]

----------------------------------------------------------------------------
(* C25 *)

\* C25 as stated: when upload_files_to_store has returned, on success and
\* on every failure path, no temporary file it created is left on disk.
C25_NoTempFileRemains ==
    UploadReturned => temp_files = {}

(* C26 *)
\* the last remote call of the last operation of the file search service
LastRemoteCall == remote_calls[Len(remote_calls)]

\* the last operation of the file search service made a remote call that
\* raised
RemoteCallRaised ==
    /\ remote_calls # <<>>
    /\ LastRemoteCall.outcome \in Exceptions

\* create_file_search_store, query_rag or delete_store was the last operation
\* and is over
ServiceAnswered == service_result # NoResult

\* the last operation of the service is over and left its failure value: None
\* of create_file_search_store, a record with an error and no citations of
\* query_rag, False of delete_store, (False, message, 0) of
\* upload_files_to_store
LeftFailureValue ==
    IF ServiceAnswered
    THEN /\ "raised" \notin DOMAIN service_result
         /\ CASE service_result.op = "create_file_search_store" ->
                   service_result.value = None
              [] service_result.op = "query_rag" ->
                   /\ service_result.value.error # None
                   /\ service_result.value.citations = <<>>
              [] service_result.op = "delete_store" ->
                   service_result.value = FALSE
    ELSE /\ UploadReturned
         /\ ~upload_result.success
         /\ upload_result.message # <<>>
         /\ upload_result.count = 0

\* C26: no operation of GeminiFileSearchService lets an exception out; on an
\* unconfigured service every operation that is over made no remote call and
\* left its failure value, and an operation in which a remote call raised is
\* over and left its failure value.
C26_FailureValuesInsteadOfRaising ==
    /\ "raised" \notin DOMAIN service_result
    /\ ~rag_is_configured =>
          /\ remote_calls = <<>>
          /\ (ServiceAnswered \/ UploadReturned) => LeftFailureValue
    /\ RemoteCallRaised => LeftFailureValue

\* a query_rag in which generate_content raised is over
C26_Witness ==
    /\ rag_is_configured
    /\ RemoteCallRaised
    /\ ServiceAnswered
    /\ service_result.op = "query_rag"

\* an upload_files_to_store on an unconfigured service is over
C26_WitnessUnconfigured ==
    /\ ~rag_is_configured
    /\ UploadReturned

(* C27 *)
\* query_rag is over and returned without error
QuerySucceeded ==
    /\ ServiceAnswered
    /\ service_result.op = "query_rag"
    /\ service_result.value.error = None

\* the titles of the chunks with a retrieved context that the first candidate
\* of the response has, Unknown Source standing for a title that is None or
\* empty
RetrievedTitles ==
    {IF c.retrieved_context.title \in {None, <<>>}
     THEN UnknownSource
     ELSE c.retrieved_context.title :
        c \in {d \in Range(grounding_chunks(query_response)) :
                  d.retrieved_context # NoContext}}

\* C27: the citations of a query_rag that returned without error hold no
\* title twice and are, as a set, the titles of the grounding chunks with a
\* retrieved context, a missing title being replaced by Unknown Source;
\* chunks without a retrieved context add nothing.
C27_CitationsAreRetrievedTitles ==
    QuerySucceeded =>
        LET citations == service_result.value.citations
        IN /\ Cardinality(Range(citations)) = Len(citations)
           /\ Range(citations) = RetrievedTitles

\* two chunks with a retrieved context, one without title and one called
\* Unknown Source, gave one citation
C27_Witness ==
    /\ QuerySucceeded
    /\ Len(grounding_chunks(query_response)) = 2
    /\ \E k \in 1..2 :
          LET c == grounding_chunks(query_response)[k].retrieved_context
          IN c # NoContext /\ c.title = None
    /\ service_result.value.citations = <<UnknownSource>>

\* a chunk without a retrieved context next to one with a title gave the one
\* citation
C27_WitnessNoContext ==
    /\ QuerySucceeded
    /\ \E k \in 1..Len(grounding_chunks(query_response)) :
          grounding_chunks(query_response)[k].retrieved_context = NoContext
    /\ service_result.value.citations = <<<<"a">>>>

(* C21 *)
\* the provider indexed a file called name into the store of the session
StoreHolds(name) ==
    \E pair \in indexed : pair[1] = rag_store_id /\ pair[2].name = name

\* C21 as stated: whenever rag_files_uploaded is true, rag_store_id names a
\* store the provider created, and every file listed in uploaded_file_names
\* was indexed into that store.
C21_StoreHoldsListedFiles ==
    rag_files_uploaded =>
        /\ rag_store_id \in created_stores
        /\ \A k \in 1..Len(uploaded_file_names) :
              StoreHolds(uploaded_file_names[k])

(* C22 *)
\* the last run was a Clear All whose delete_store returned True
ClearedAndDeleted ==
    /\ chat_handler = "clear"
    /\ ServiceAnswered
    /\ service_result.op = "delete_store"
    /\ service_result.value = TRUE

\* C22 as stated: after a Clear All whose delete succeeded, no store the
\* session created is left with the provider.
C22_NoStoreLeftAfterClear ==
    ClearedAndDeleted => remote_stores = {}

(* C23 *)
\* the file of the uploader that is of an allowed type and not too large:
\* the PDF of exactly the largest size
IsAcceptable(f) == f = UploaderFiles[1]

\* the last run called upload_files_to_store
UploadAttempted == upload_pc = "returned"

\* valid_files of a Process Documents are the acceptable files of the
\* uploader, in their order
C23_OnlyValidated ==
    chat_handler = "process" =>
        valid_files = SelectSeq(uploader, IsAcceptable)

\* upload_files_to_store is called by Process Documents only, with the valid
\* files, of which there is one, and with the store that
\* create_file_search_store returned in the run and that is in the session
C23_UploadAfterCreate ==
    UploadAttempted =>
        /\ chat_handler = "process"
        /\ valid_files # <<>>
        /\ uploaded_files = valid_files
        /\ ServiceAnswered
        /\ service_result.op = "create_file_search_store"
        /\ service_result.value # None
        /\ store_id = service_result.value
        /\ rag_store_id = store_id
        /\ store_id \in created_stores

\* a store is created in a Process Documents with a valid file only; a run
\* that calls upload_files_to_store has created its store; and
\* rag_files_uploaded becomes true in a run whose upload_files_to_store
\* reported success only
C23_StepOrder ==
    /\ created_stores' # created_stores =>
          /\ chat_handler' = "process"
          /\ valid_files' # <<>>
    /\ UploadAttempted' =>
          /\ store_id' \notin created_stores
          /\ created_stores' = created_stores \cup {store_id'}
    /\ (~rag_files_uploaded /\ rag_files_uploaded') =>
          /\ UploadAttempted'
          /\ upload_result'.success

\* C23: Process Documents validates, creates the store, uploads: without a
\* valid file no store is created, without a store nothing is uploaded, only
\* the files that passed the validation are uploaded, and rag_files_uploaded
\* is set only after the upload reported success.
C23_ValidateCreateUpload ==
    /\ [](C23_OnlyValidated /\ C23_UploadAfterCreate)
    /\ [][C23_StepOrder]_vars

\* a Process Documents with a file that is too large and one that is not
\* uploaded the one and set rag_files_uploaded
C23_Witness ==
    /\ chat_handler = "process"
    /\ uploader = <<UploaderFiles[1], UploaderFiles[3]>>
    /\ uploaded_files = <<UploaderFiles[1]>>
    /\ upload_result.success
    /\ rag_files_uploaded

(* C24 *)
\* a question is submitted
Ask == AskBlank \/ AskAnswered \/ AskFails

\* the session of the chat is as Clear All leaves it
ChatCleared ==
    /\ ~rag_files_uploaded
    /\ rag_store_id = None
    /\ uploaded_file_names = <<>>
    /\ rag_chat_history = <<>>

\* C24: after Clear All the four keys of the chat are reset, whether
\* delete_store returned True or False; Clear All leaves generated_stories
\* and selected_story as they are; and while rag_files_uploaded is false no
\* question can be submitted.
C24_ClearAllResets ==
    /\ [](chat_handler = "clear" => ChatCleared)
    /\ [][chat_handler' = "clear" =>
             UNCHANGED <<generated_stories, selected_story>>]_vars
    /\ [](~rag_files_uploaded => ~ENABLED Ask)

\* a Clear All whose delete_store failed, in a session that has a story
C24_Witness ==
    /\ chat_handler = "clear"
    /\ ServiceAnswered
    /\ service_result.op = "delete_store"
    /\ service_result.value = FALSE
    /\ ChatCleared
    /\ generated_stories # <<>>

\* a Clear All whose delete_store succeeded
C24_WitnessDeleted ==
    /\ ClearedAndDeleted
    /\ ChatCleared

============================================================================
